---- MODULE Spec2Model ----
(***************************************************************************)
(* Model of the TCP echo server of src/src/server.rs: the accept loop of   *)
(* Server::run, the cooperative shutdown of Server::stop, the worker pool  *)
(* that runs one servicing loop per accepted connection, and               *)
(* Client::handle (one read, decode as EchoMessage, re-encode, write).     *)
(*                                                                         *)
(* Bytes are naturals 0..255, byte strings are sequences of bytes.  The    *)
(* protobuf wire format is modelled byte for byte, because the handler     *)
(* decodes the request with one message type and the client decodes the    *)
(* reply with another.                                                     *)
(***************************************************************************)
EXTENDS Integers, Sequences, FiniteSets, Bags, TLC

(***************************************************************************)
(* Bounds of the model (not program constants).                            *)
(***************************************************************************)
MaxConns == 2      \* connections the clients open in MsgSpec
MaxSends == 2      \* client writes in MsgSpec, summed over all connections
LifeConns == 1     \* connections the clients open in Spec
LifeSends == 1     \* client writes in Spec, summed over all connections
MaxRuns  == 2      \* calls of Server::run
SatExtra == 1      \* connections beyond the pool size in SatSpec

(***************************************************************************)
(* Program constants.                                                      *)
(***************************************************************************)
PoolSize == 16     \* ThreadPool::new(16)
BufSize  == 512    \* let mut buffer = [0; 512]

(***************************************************************************)
(* Byte-string helpers.                                                    *)
(***************************************************************************)
Take(s, n) == SubSeq(s, 1, n)
Drop(s, n) == SubSeq(s, n + 1, Len(s))

(***************************************************************************)
(* Protobuf encoding (prost).  A varint is little-endian base 128; a       *)
(* negative int32 is sign-extended to 64 bits and takes ten bytes.         *)
(* Fields holding the default value are not written.                       *)
(***************************************************************************)
RECURSIVE EncVarint(_)
EncVarint(n) ==
    IF n < 128 THEN <<n>> ELSE <<(n % 128) + 128>> \o EncVarint(n \div 128)

RECURSIVE EncNegVarint(_, _)
EncNegVarint(v, k) ==
    IF k = 1 THEN <<v % 2>>
    ELSE <<(v % 128) + 128>> \o EncNegVarint(v \div 128, k - 1)

EncInt32(v) == IF v >= 0 THEN EncVarint(v) ELSE EncNegVarint(v, 10)

LenField(tag, body) == <<tag * 8 + 2>> \o EncVarint(Len(body)) \o body

Int32Field(tag, v) == IF v = 0 THEN <<>> ELSE <<tag * 8>> \o EncInt32(v)

\* EchoMessage { string content = 1 }
EncodeEchoMessage(content) ==
    IF content = <<>> THEN <<>> ELSE LenField(1, content)

\* AddRequest { int32 a = 1; int32 b = 2 }
EncodeAddRequest(a, b) == Int32Field(1, a) \o Int32Field(2, b)

\* AddResponse { int32 result = 1 }
EncodeAddResponse(r) == Int32Field(1, r)

\* client_message::Message, as the test client puts it on the wire
ClientEcho(text) == LenField(1, EncodeEchoMessage(text))
ClientAdd(a, b)  == LenField(2, EncodeAddRequest(a, b))

\* server_message::Message, as the test client expects it from the wire
ServerEcho(text) == LenField(1, EncodeEchoMessage(text))
ServerAdd(r)     == LenField(2, EncodeAddResponse(r))

\* i32 addition, wrapping at 32 bits (the tests compute
\* add_request.a + add_request.b)
MaxI32 == 2147483647
MinI32 == (0 - 2147483647) - 1

I32Add(a, b) ==
    IF b > 0 /\ a > MaxI32 - b THEN MinI32 + ((a - MaxI32) + (b - 1))
    ELSE IF b < 0 /\ a < MinI32 - b THEN MaxI32 - ((MinI32 - a) - (b + 1))
    ELSE a + b

(***************************************************************************)
(* Protobuf decoding (prost).                                              *)
(*                                                                         *)
(* DecVarint reads at most ten bytes.  The value is exact below Huge and   *)
(* saturates at Huge; over32 says that it exceeds u32::MAX, which is all   *)
(* the decoder needs to know of a value that large.                        *)
(***************************************************************************)
Huge == 268435456

DecodeError == [ok |-> FALSE, content |-> <<>>]
VarintError == [ok |-> FALSE, val |-> 0, over32 |-> FALSE, rest |-> <<>>]
SkipError   == [ok |-> FALSE, rest |-> <<>>]

Pow128(k) == CASE k = 0 -> 1 [] k = 1 -> 128 [] k = 2 -> 16384 [] OTHER -> 2097152

RECURSIVE DecVarintFrom(_, _, _, _)
DecVarintFrom(b, k, acc, over) ==
    IF b = <<>> THEN VarintError
    ELSE LET x    == Head(b)
             d    == x % 128
             add  == IF k <= 4 THEN d * Pow128(k - 1)
                     ELSE IF d = 0 THEN 0 ELSE Huge
             acc2 == IF acc + add >= Huge THEN Huge ELSE acc + add
             ov2  == over \/ (k = 5 /\ d > 15) \/ (k > 5 /\ d > 0)
         IN  IF x < 128
             THEN [ok |-> TRUE, val |-> acc2, over32 |-> ov2, rest |-> Tail(b)]
             ELSE IF k = 10 THEN VarintError
             ELSE DecVarintFrom(Tail(b), k + 1, acc2, ov2)

DecVarint(b) == DecVarintFrom(b, 1, 0, FALSE)

\* core::str::from_utf8
RECURSIVE ValidUtf8(_)
ValidUtf8(s) ==
    LET Cont(i)      == Len(s) >= i /\ s[i] >= 128 /\ s[i] <= 191
        In(i, lo, hi) == Len(s) >= i /\ s[i] >= lo /\ s[i] <= hi
    IN  IF s = <<>> THEN TRUE
        ELSE LET x == s[1] IN
             IF x < 128 THEN ValidUtf8(Drop(s, 1))
             ELSE IF x >= 194 /\ x <= 223
                  THEN Cont(2) /\ ValidUtf8(Drop(s, 2))
             ELSE IF x = 224
                  THEN In(2, 160, 191) /\ Cont(3) /\ ValidUtf8(Drop(s, 3))
             ELSE IF x = 237
                  THEN In(2, 128, 159) /\ Cont(3) /\ ValidUtf8(Drop(s, 3))
             ELSE IF x >= 225 /\ x <= 239
                  THEN Cont(2) /\ Cont(3) /\ ValidUtf8(Drop(s, 3))
             ELSE IF x = 240
                  THEN In(2, 144, 191) /\ Cont(3) /\ Cont(4)
                       /\ ValidUtf8(Drop(s, 4))
             ELSE IF x = 244
                  THEN In(2, 128, 143) /\ Cont(3) /\ Cont(4)
                       /\ ValidUtf8(Drop(s, 4))
             ELSE IF x >= 241 /\ x <= 243
                  THEN Cont(2) /\ Cont(3) /\ Cont(4) /\ ValidUtf8(Drop(s, 4))
             ELSE FALSE

\* prost::encoding::skip_field: step over a field the message type does not
\* declare.  Wire types: 0 varint, 1 fixed64, 2 length-delimited,
\* 3 start group, 4 end group, 5 fixed32.
RECURSIVE SkipField(_, _, _)
RECURSIVE SkipGroup(_, _)
SkipField(wire, tag, b) ==
    CASE wire = 0 -> LET v == DecVarint(b) IN
                     IF v.ok THEN [ok |-> TRUE, rest |-> v.rest] ELSE SkipError
      [] wire = 1 -> IF Len(b) >= 8 THEN [ok |-> TRUE, rest |-> Drop(b, 8)]
                     ELSE SkipError
      [] wire = 2 -> LET l == DecVarint(b) IN
                     IF l.ok /\ l.val <= Len(l.rest)
                     THEN [ok |-> TRUE, rest |-> Drop(l.rest, l.val)]
                     ELSE SkipError
      [] wire = 3 -> SkipGroup(tag, b)
      [] wire = 5 -> IF Len(b) >= 4 THEN [ok |-> TRUE, rest |-> Drop(b, 4)]
                     ELSE SkipError
      [] OTHER    -> SkipError

SkipGroup(tag, b) ==
    LET k == DecVarint(b) IN
    IF ~k.ok \/ k.over32 THEN SkipError
    ELSE LET wire  == Head(b) % 8
             inner == k.val \div 8
         IN  IF wire > 5 \/ inner = 0 THEN SkipError
             ELSE IF wire = 4
                  THEN IF inner = tag THEN [ok |-> TRUE, rest |-> k.rest]
                       ELSE SkipError
             ELSE LET r == SkipField(wire, inner, k.rest) IN
                  IF r.ok THEN SkipGroup(tag, r.rest) ELSE SkipError

\* EchoMessage::decode(&buffer[..bytes_read]): field 1 must be a
\* length-delimited UTF-8 string (the last occurrence wins), every other
\* field is skipped.
RECURSIVE MergeEcho(_, _)
MergeEcho(b, content) ==
    IF b = <<>> THEN [ok |-> TRUE, content |-> content]
    ELSE LET k == DecVarint(b) IN
         IF ~k.ok \/ k.over32 THEN DecodeError
         ELSE LET wire == Head(b) % 8
                  tag  == k.val \div 8
              IN  IF wire > 5 \/ tag = 0 THEN DecodeError
                  ELSE IF tag = 1
                       THEN IF wire # 2 THEN DecodeError
                            ELSE LET l == DecVarint(k.rest) IN
                                 IF ~l.ok \/ l.val > Len(l.rest)
                                 THEN DecodeError
                                 ELSE LET s == Take(l.rest, l.val) IN
                                      IF ValidUtf8(s)
                                      THEN MergeEcho(Drop(l.rest, l.val), s)
                                      ELSE DecodeError
                  ELSE LET r == SkipField(wire, tag, k.rest) IN
                       IF r.ok THEN MergeEcho(r.rest, content)
                       ELSE DecodeError

DecodeEchoMessage(bytes) == MergeEcho(bytes, <<>>)

\* What Client::handle writes for the chunk it read: the re-encoded
\* EchoMessage, or nothing when the chunk does not decode.
HandlePayload(chunk) ==
    LET message == DecodeEchoMessage(chunk) IN
    IF message.ok THEN EncodeEchoMessage(message.content) ELSE <<>>

(***************************************************************************)
(* State.                                                                  *)
(*                                                                         *)
(* A connection is a record: inbuf, the bytes the peer has sent and the    *)
(* server has not read; closed, whether the peer has disconnected; pool,   *)
(* the run() call whose pool services it (0 before accept); pc, where its  *)
(* servicing loop stands ("new" until a worker starts it, "check" at the   *)
(* loop condition, "read" in handle() at the read, "write" in handle()     *)
(* after a non-empty read); log, one entry per non-empty read with the     *)
(* chunk read and the payload written for it; zeros, 1 once a read on it   *)
(* has returned zero bytes; lateR and lateW, the reads and the writes      *)
(* begun on it while the flag was false; seen, the run() call during       *)
(* which its loop last found the flag true (0 before the first time).      *)
(* Connections carry no identity: the ones being serviced form a bag.      *)
(***************************************************************************)
VARIABLES
    is_running,   \* Server.is_running, the shared AtomicBool
    rpc,          \* the thread calling run(): "idle", "store", "check",
                  \* "accept", "sleep", "failed"
    runs,         \* run() calls so far; the pool of the current call
    spc,          \* the thread calling stop(): "idle", "store", "warn"
    backlog,      \* connections the listener has not accepted yet
    queue,        \* queue[r]: jobs submitted to the pool of run r, FIFO
    conns,        \* bag of the connections a worker is servicing
    nconn,        \* connections opened so far
    nsend,        \* client writes so far
    stopped,      \* a stop() called during the current run(): "no",
                  \* "pending" while it executes, "yes" once it has returned
    acceptLate    \* accepts begun while the flag was false

vars == <<is_running, rpc, runs, spc, backlog, queue, conns, nconn,
          nsend, stopped, acceptLate>>

netvars   == <<backlog, queue, conns, nconn, nsend>>
ghostvars == <<stopped, acceptLate>>

Cap == 3           \* the history counters stop counting here

Bump(n) == IF n < Cap THEN n + 1 ELSE Cap

Min(a, b) == IF a < b THEN a ELSE b

\* the texts and the requests the clients send, and a payload that is not
\* a message (a string field announcing more bytes than follow)
Hi       == <<72, 105>>
Texts    == {<<>>, Hi}
AddPairs == {<<10, 20>>}
Requests == {ClientEcho(t) : t \in Texts}
            \cup {ClientAdd(p[1], p[2]) : p \in AddPairs}
Garbage  == <<10, 5, 72>>
Payloads == Requests \cup {Garbage}

NewConn == [inbuf |-> <<>>, closed |-> FALSE, pool |-> 0, pc |-> "new",
            log |-> <<>>, zeros |-> 0, lateR |-> 0, lateW |-> 0, seen |-> 0]

Serviced     == BagToSet(conns)
Put(c)       == SetToBag({c})
Replace(c, d) == (conns (-) Put(c)) (+) Put(d)

\* the workers of pool r that are running a job
Busy(r) ==
    BagCardinality([c \in {x \in Serviced : x.pool = r} |-> conns[c]])

\* every serviced connection with its late counters cleared
ResetLate ==
    LET R(c) == [c EXCEPT !.lateR = 0, !.lateW = 0]
        img  == {R(c) : c \in Serviced}
    IN  [d \in img |->
            BagCardinality([c \in {x \in Serviced : R(x) = d} |-> conns[c]])]

Init ==
    /\ is_running = FALSE
    /\ rpc = "idle"
    /\ runs = 0
    /\ spc = "idle"
    /\ backlog = <<>>
    /\ queue = [r \in 1..MaxRuns |-> <<>>]
    /\ conns = EmptyBag
    /\ nconn = 0
    /\ nsend = 0
    /\ stopped = "no"
    /\ acceptLate = 0

(***************************************************************************)
(* Server::run                                                             *)
(***************************************************************************)
\* a thread calls run()
RunCall ==
    /\ rpc = "idle"
    /\ runs < MaxRuns
    /\ rpc' = "store"
    /\ runs' = runs + 1
    /\ stopped' = "no"
    /\ UNCHANGED <<is_running, spc, netvars, acceptLate>>

\* is_running.store(true), set_nonblocking(true), ThreadPool::new(16)
RunStore ==
    /\ rpc = "store"
    /\ is_running' = TRUE
    /\ rpc' = "check"
    /\ conns' = ResetLate
    /\ acceptLate' = 0
    /\ UNCHANGED <<runs, spc, backlog, queue, nconn, nsend, stopped>>

\* while self.is_running.load(): into the loop body, or out of the loop,
\* "Server stopped." and Ok(())
AcceptLoopCheck ==
    /\ rpc = "check"
    /\ rpc' = IF is_running THEN "accept" ELSE "idle"
    /\ UNCHANGED <<is_running, runs, spc, netvars, ghostvars>>

\* an accept arm that submits the connection's job twice
ExecuteTwice(r, c) ==
    [queue EXCEPT ![r] = Append(Append(@, [c EXCEPT !.pool = r]),
                                [c EXCEPT !.pool = r])]

\* pool.execute: the job goes to the back of the pool's queue
Execute(r, c) == [queue EXCEPT ![r] = Append(@, [c EXCEPT !.pool = r])]

\* accept with a pool whose execute() waits for an idle worker
AcceptOkBlocking ==
    /\ rpc = "accept"
    /\ backlog # <<>>
    /\ Busy(runs) < PoolSize
    /\ backlog' = Tail(backlog)
    /\ queue' = Execute(runs, Head(backlog))
    /\ rpc' = "check"
    /\ acceptLate' = IF is_running THEN acceptLate ELSE Bump(acceptLate)
    /\ UNCHANGED <<is_running, runs, spc, conns, nconn, nsend,
                   stopped>>

\* listener.accept() returns Ok((stream, addr)); the servicing loop is
\* handed to the pool
AcceptOk ==
    /\ rpc = "accept"
    /\ backlog # <<>>
    /\ backlog' = Tail(backlog)
    /\ queue' = Execute(runs, Head(backlog))
    /\ rpc' = "check"
    /\ acceptLate' = IF is_running THEN acceptLate ELSE Bump(acceptLate)
    /\ UNCHANGED <<is_running, runs, spc, conns, nconn, nsend,
                   stopped>>

\* listener.accept() returns WouldBlock
AcceptWouldBlock ==
    /\ rpc = "accept"
    /\ backlog = <<>>
    /\ rpc' = "sleep"
    /\ acceptLate' = IF is_running THEN acceptLate ELSE Bump(acceptLate)
    /\ UNCHANGED <<is_running, runs, spc, netvars, stopped>>

\* an accept error that makes run() return
AcceptErrorFatal ==
    /\ rpc = "accept"
    /\ rpc' = "idle"
    /\ acceptLate' = IF is_running THEN acceptLate ELSE Bump(acceptLate)
    /\ UNCHANGED <<is_running, runs, spc, netvars, stopped>>

\* listener.accept() returns another error: into the Err(e) arm
AcceptError ==
    /\ rpc = "accept"
    /\ rpc' = "failed"
    /\ acceptLate' = IF is_running THEN acceptLate ELSE Bump(acceptLate)
    /\ UNCHANGED <<is_running, runs, spc, netvars, stopped>>

\* "Error accepting connection", and on to the next iteration
AcceptErrorLogged ==
    /\ rpc = "failed"
    /\ rpc' = "check"
    /\ UNCHANGED <<is_running, runs, spc, netvars, ghostvars>>

\* std::thread::sleep(100ms) is over
Sleep ==
    /\ rpc = "sleep"
    /\ rpc' = "check"
    /\ UNCHANGED <<is_running, runs, spc, netvars, ghostvars>>

(***************************************************************************)
(* Server::stop                                                            *)
(***************************************************************************)
\* stop() with the branches of its test exchanged
StopLoadInverted ==
    /\ spc = "idle"
    /\ spc' = IF is_running THEN "warn" ELSE "store"
    /\ stopped' = IF rpc # "idle" /\ stopped = "no" THEN "pending" ELSE stopped
    /\ UNCHANGED <<is_running, rpc, runs, netvars, acceptLate>>

\* a thread calls stop(): if self.is_running.load()
StopLoad ==
    /\ spc = "idle"
    /\ spc' = IF is_running THEN "store" ELSE "warn"
    /\ stopped' = IF rpc # "idle" /\ stopped = "no" THEN "pending" ELSE stopped
    /\ UNCHANGED <<is_running, rpc, runs, netvars, acceptLate>>

\* is_running.store(false); "Shutdown signal sent."
StopStore ==
    /\ spc = "store"
    /\ is_running' = FALSE
    /\ spc' = "idle"
    /\ stopped' = IF stopped = "pending" THEN "yes" ELSE stopped
    /\ UNCHANGED <<rpc, runs, netvars, acceptLate>>

\* "Server was already stopped or not running."
StopWarn ==
    /\ spc = "warn"
    /\ spc' = "idle"
    /\ stopped' = IF stopped = "pending" THEN "yes" ELSE stopped
    /\ UNCHANGED <<is_running, rpc, runs, netvars, acceptLate>>

(***************************************************************************)
(* The pool's workers and the servicing loop                               *)
(***************************************************************************)
\* a pool that starts a thread for every job
WorkerTakeUnbounded(r) ==
    /\ queue[r] # <<>>
    /\ queue' = [queue EXCEPT ![r] = Tail(@)]
    /\ conns' = conns (+) Put([Head(queue[r]) EXCEPT !.pc = "check"])
    /\ UNCHANGED <<is_running, rpc, runs, spc, backlog, nconn, nsend,
                   ghostvars>>

\* an idle worker of pool r takes the job at the front of the queue:
\* Client::new(stream)
WorkerTake(r) ==
    /\ queue[r] # <<>>
    /\ Busy(r) < PoolSize
    /\ queue' = [queue EXCEPT ![r] = Tail(@)]
    /\ conns' = conns (+) Put([Head(queue[r]) EXCEPT !.pc = "check"])
    /\ UNCHANGED <<is_running, rpc, runs, spc, backlog, nconn, nsend,
                   ghostvars>>

\* a servicing loop that tests the flag after handle(), not before
LoopCheckAfter(c) ==
    /\ c.pc = "check"
    /\ conns' = IF is_running \/ c.seen = 0
                THEN Replace(c, [c EXCEPT !.pc = "read", !.seen = runs])
                ELSE conns (-) Put(c)
    /\ UNCHANGED <<is_running, rpc, runs, spc, backlog, queue, nconn,
                   nsend, ghostvars>>

\* a servicing loop that does not look at the flag
LoopCheckAlways(c) ==
    /\ c.pc = "check"
    /\ conns' = Replace(c, [c EXCEPT !.pc = "read", !.seen = runs])
    /\ UNCHANGED <<is_running, rpc, runs, spc, backlog, queue, nconn,
                   nsend, ghostvars>>

\* while is_running.load(): into handle(), or "Client handler thread
\* exiting." and the stream is dropped
LoopCheck(c) ==
    /\ c.pc = "check"
    /\ conns' = IF is_running
                THEN Replace(c, [c EXCEPT !.pc = "read", !.seen = runs])
                ELSE conns (-) Put(c)
    /\ UNCHANGED <<is_running, rpc, runs, spc, backlog, queue, nconn,
                   nsend, ghostvars>>

Late(n) == IF is_running THEN n ELSE Bump(n)

\* self.stream.read(&mut buffer) returns n > 0 bytes: all the bytes that
\* have arrived, at most the buffer (a peer's write arrives as a whole)
HandleRead(c) ==
    /\ c.pc = "read"
    /\ c.inbuf # <<>>
    /\ LET n == Min(Len(c.inbuf), BufSize) IN
       conns' = Replace(c, [c EXCEPT
                   !.inbuf = Drop(@, n),
                   !.pc = "write",
                   !.log = Append(@, [req |-> Take(c.inbuf, n),
                                      rep |-> <<>>]),
                   !.lateR = Late(@)])
    /\ UNCHANGED <<is_running, rpc, runs, spc, backlog, queue, nconn,
                   nsend, ghostvars>>

\* the read returns 0: "Client disconnected." and return Ok(())
HandleReadZero(c) ==
    /\ c.pc = "read"
    /\ c.inbuf = <<>>
    /\ c.closed
    /\ conns' = Replace(c, [c EXCEPT !.pc = "check", !.zeros = 1,
                                     !.lateR = Late(@)])
    /\ UNCHANGED <<is_running, rpc, runs, spc, backlog, queue, nconn,
                   nsend, ghostvars>>

\* a read error that shuts the server down
HandleReadErrorFatal(c) ==
    /\ c.pc = "read"
    /\ conns' = conns (-) Put(c)
    /\ is_running' = FALSE
    /\ UNCHANGED <<rpc, runs, spc, backlog, queue, nconn, nsend, ghostvars>>

\* the read fails: handle() returns the error, the loop logs it and breaks
HandleReadError(c) ==
    /\ c.pc = "read"
    /\ conns' = conns (-) Put(c)
    /\ UNCHANGED <<is_running, rpc, runs, spc, backlog, queue, nconn,
                   nsend, ghostvars>>

\* the log with the payload written for the chunk read last
Replied(log, payload) == [log EXCEPT ![Len(log)].rep = payload]

\* a handle() that returns the decode error, so that the loop breaks
HandleWriteStrict(c) ==
    /\ c.pc = "write"
    /\ LET chunk   == c.log[Len(c.log)].req
           payload == HandlePayload(chunk)
       IN  conns' = IF DecodeEchoMessage(chunk).ok
                    THEN Replace(c, [c EXCEPT
                            !.pc = "check",
                            !.log = Replied(@, payload),
                            !.lateW = IF payload = <<>> THEN @ ELSE Late(@)])
                    ELSE conns (-) Put(c)
    /\ UNCHANGED <<is_running, rpc, runs, spc, backlog, queue, nconn,
                   nsend, ghostvars>>

\* a handle() that answers each of two requests that arrived in one chunk
HandleWritePerMessage(c) ==
    /\ c.pc = "write"
    /\ LET chunk   == c.log[Len(c.log)].req
           halves  == {h \in Requests \X Requests : chunk = h[1] \o h[2]}
           payload == IF halves = {} THEN HandlePayload(chunk)
                      ELSE LET h == CHOOSE x \in halves : TRUE
                           IN  HandlePayload(h[1]) \o HandlePayload(h[2])
       IN  conns' = Replace(c, [c EXCEPT
                       !.pc = "check",
                       !.log = Replied(@, payload),
                       !.lateW = IF payload = <<>> THEN @ ELSE Late(@)])
    /\ UNCHANGED <<is_running, rpc, runs, spc, backlog, queue, nconn,
                   nsend, ghostvars>>

\* the rest of handle(): decode the chunk; on success write_all the
\* re-encoded message (an empty payload writes nothing) and flush; on
\* failure "Failed to decode message"; return Ok(())
HandleWrite(c) ==
    /\ c.pc = "write"
    /\ LET payload == HandlePayload(c.log[Len(c.log)].req) IN
       conns' = Replace(c, [c EXCEPT
                   !.pc = "check",
                   !.log = Replied(@, payload),
                   !.lateW = IF payload = <<>> THEN @ ELSE Late(@)])
    /\ UNCHANGED <<is_running, rpc, runs, spc, backlog, queue, nconn,
                   nsend, ghostvars>>

\* write_all fails: handle() returns the error, the loop logs it and breaks
HandleWriteError(c) ==
    /\ c.pc = "write"
    /\ HandlePayload(c.log[Len(c.log)].req) # <<>>
    /\ conns' = conns (-) Put(c)
    /\ UNCHANGED <<is_running, rpc, runs, spc, backlog, queue, nconn,
                   nsend, ghostvars>>

(***************************************************************************)
(* The clients                                                             *)
(***************************************************************************)
\* a client connects: the connection waits in the listener's backlog
Connect(max) ==
    /\ nconn < max
    /\ nconn' = nconn + 1
    /\ backlog' = Append(backlog, NewConn)
    /\ UNCHANGED <<is_running, rpc, runs, spc, queue, conns, nsend,
                   ghostvars>>

\* the connection after its peer has written bytes to it, or has
\* disconnected
After(c, bytes, close) ==
    [c EXCEPT !.inbuf = @ \o bytes, !.closed = @ \/ close]

\* the peer of a connection acts on it, wherever the connection is
PeerActs(bytes, close) ==
    \/ \E i \in DOMAIN backlog :
          /\ ~backlog[i].closed
          /\ backlog' = [backlog EXCEPT ![i] = After(@, bytes, close)]
          /\ UNCHANGED <<queue, conns>>
    \/ \E r \in DOMAIN queue : \E i \in DOMAIN queue[r] :
          /\ ~queue[r][i].closed
          /\ queue' = [queue EXCEPT ![r][i] = After(@, bytes, close)]
          /\ UNCHANGED <<backlog, conns>>
    \/ \E c \in Serviced :
          /\ ~c.closed
          /\ conns' = Replace(c, After(c, bytes, close))
          /\ UNCHANGED <<backlog, queue>>

\* a client writes one payload to its connection
ClientSend(payloads, max) ==
    /\ nsend < max
    /\ nsend' = nsend + 1
    /\ \E m \in payloads : PeerActs(m, FALSE)
    /\ UNCHANGED <<is_running, rpc, runs, spc, nconn, ghostvars>>

\* a client disconnects
ClientClose ==
    /\ PeerActs(<<>>, TRUE)
    /\ UNCHANGED <<is_running, rpc, runs, spc, nconn, nsend, ghostvars>>

(***************************************************************************)
(* Specifications                                                          *)
(***************************************************************************)
RunSteps ==
    \/ RunCall
    \/ RunStore
    \/ AcceptLoopCheck
    \/ AcceptOk
    \/ AcceptWouldBlock
    \/ AcceptError
    \/ AcceptErrorLogged
    \/ Sleep

StopSteps ==
    \/ StopLoad
    \/ StopStore
    \/ StopWarn

WorkerSteps ==
    \/ \E r \in 1..MaxRuns : WorkerTake(r)
    \/ \E c \in Serviced : LoopCheck(c)
    \/ \E c \in Serviced : HandleRead(c)
    \/ \E c \in Serviced : HandleReadZero(c)
    \/ \E c \in Serviced : HandleReadError(c)
    \/ \E c \in Serviced : HandleWrite(c)
    \/ \E c \in Serviced : HandleWriteError(c)

\* Spec: the life cycle.  run() and stop() are called at any time and any
\* number of times (run() at most MaxRuns times), clients connect, send
\* echo requests and disconnect, reads and writes may fail.
Next ==
    \/ RunSteps
    \/ StopSteps
    \/ WorkerSteps
    \/ Connect(LifeConns)
    \/ ClientSend({ClientEcho(Hi)}, LifeSends)
    \/ ClientClose

Spec == Init /\ [][Next]_vars

\* LiveSpec: the life cycle with every thread scheduled: a thread that can
\* take its next step takes it.  A read or write need not fail, a client
\* need not send or disconnect, and nobody need call run() or stop().
ThreadsRun ==
    /\ WF_vars(RunStore)
    /\ WF_vars(AcceptLoopCheck)
    /\ WF_vars(AcceptOk \/ AcceptWouldBlock)
    /\ WF_vars(AcceptErrorLogged)
    /\ WF_vars(Sleep)
    /\ WF_vars(StopStore)
    /\ WF_vars(StopWarn)
    /\ WF_vars(\E r \in 1..MaxRuns : WorkerTake(r))
    /\ WF_vars(\E c \in Serviced : LoopCheck(c))
    /\ WF_vars(\E c \in Serviced : HandleRead(c))
    /\ WF_vars(\E c \in Serviced : HandleReadZero(c))
    /\ WF_vars(\E c \in Serviced : HandleWrite(c))

LiveSpec == Spec /\ ThreadsRun

\* MsgSpec: the protocol.  The server is started and not stopped; clients
\* connect, send any of the payloads and stay connected.
MsgNext ==
    \/ RunSteps
    \/ \E r \in 1..MaxRuns : WorkerTake(r)
    \/ \E c \in Serviced : LoopCheck(c)
    \/ \E c \in Serviced : HandleRead(c)
    \/ \E c \in Serviced : HandleReadError(c)
    \/ \E c \in Serviced : HandleWrite(c)
    \/ \E c \in Serviced : HandleWriteError(c)
    \/ Connect(MaxConns)
    \/ ClientSend(Payloads, MaxSends)

MsgSpec == Init /\ [][MsgNext]_vars

\* SatSpec: the saturated pool.  More clients connect than the pool has
\* workers; they send nothing and stay connected.  The first PoolSize
\* clients connect one at a time, each when the connections before it have
\* settled in their blocking read (or are gone); the others connect at any
\* time.  stop() is called once those first PoolSize clients have connected.
Settled ==
    /\ backlog = <<>>
    /\ \A r \in DOMAIN queue : queue[r] = <<>>
    /\ \A c \in Serviced : c.pc = "read"

PacedConnect ==
    /\ nconn >= PoolSize \/ Settled
    /\ Connect(PoolSize + SatExtra)

PacedStop ==
    /\ nconn >= PoolSize
    /\ StopLoad

SatNext ==
    \/ RunSteps
    \/ PacedStop
    \/ StopStore
    \/ StopWarn
    \/ \E r \in 1..MaxRuns : WorkerTake(r)
    \/ \E c \in Serviced : LoopCheck(c)
    \/ \E c \in Serviced : HandleReadError(c)
    \/ PacedConnect

SatSpec == Init /\ [][SatNext]_vars

\* SatLiveSpec: the saturated pool of a server that keeps running, with
\* every thread scheduled.  The clients connect as in SatSpec, send
\* nothing, and disconnect when all of them have connected; no accept and
\* no read fails.
PacedClose ==
    /\ nconn = PoolSize + SatExtra
    /\ ClientClose

SatLiveNext ==
    \/ RunCall
    \/ RunStore
    \/ AcceptLoopCheck
    \/ AcceptOk
    \/ AcceptWouldBlock
    \/ Sleep
    \/ \E r \in 1..MaxRuns : WorkerTake(r)
    \/ \E c \in Serviced : LoopCheck(c)
    \/ \E c \in Serviced : HandleReadZero(c)
    \/ PacedConnect
    \/ PacedClose

SatLiveSpec ==
    /\ Init /\ [][SatLiveNext]_vars
    /\ WF_vars(RunStore)
    /\ WF_vars(AcceptLoopCheck)
    /\ WF_vars(AcceptOk \/ AcceptWouldBlock)
    /\ WF_vars(Sleep)
    /\ WF_vars(\E r \in 1..MaxRuns : WorkerTake(r))
    /\ WF_vars(\E c \in Serviced : LoopCheck(c))
    /\ WF_vars(\E c \in Serviced : HandleReadZero(c))
    /\ WF_vars(PacedClose)

(***************************************************************************)
(* Properties                                                              *)
(***************************************************************************)
\* entry i of c's log belongs to a handle() call that has returned
Completed(c, i) == i < Len(c.log) \/ c.pc # "write"

\* the reply the protocol prescribes for a request
Answer(req) ==
    LET ts == {t \in Texts : req = ClientEcho(t)}
        ps == {p \in AddPairs : req = ClientAdd(p[1], p[2])}
    IN  IF ts # {} THEN ServerEcho(CHOOSE t \in ts : TRUE)
        ELSE LET p == CHOOSE q \in ps : TRUE IN ServerAdd(I32Add(p[1], p[2]))

\* C1: when stop() is called while run() is started, the accept loop ends
\* and run() returns: once such a stop() has returned, run() eventually
\* returns.
C1_StopEndsRun == (stopped = "yes") ~> (rpc = "idle")

\* C2: a handle() call that read a valid echo request with text T wrote
\* the echo response with content T.
C2_EchoRoundTrip ==
    \A c \in Serviced : \A i \in DOMAIN c.log : \A t \in Texts :
        Completed(c, i) /\ c.log[i].req = ClientEcho(t)
            => c.log[i].rep = ServerEcho(t)

\* C3: a handle() call that read a valid add request with A and B wrote
\* the add response with result A + B.
C3_AddResult ==
    \A c \in Serviced : \A i \in DOMAIN c.log : \A p \in AddPairs :
        Completed(c, i) /\ c.log[i].req = ClientAdd(p[1], p[2])
            => c.log[i].rep = ServerAdd(I32Add(p[1], p[2]))

\* C4: on a connection whose reads returned N valid requests one after
\* another, N replies have been written, the k-th being the answer to the
\* k-th request and written before request k+1 was read.
C4_RepliesInOrder ==
    \A c \in Serviced :
        (c.pc # "write" /\ \A i \in DOMAIN c.log : c.log[i].req \in Requests)
            => \A i \in DOMAIN c.log : c.log[i].rep = Answer(c.log[i].req)

\* C5: with several connections serviced at the same time, every echo
\* request read on a connection has been answered on that connection, and
\* every reply written on a connection comes from the chunk read on it.
C5_Independent ==
    BagCardinality(conns) >= 2 =>
        \A c \in Serviced : \A i \in DOMAIN c.log :
            Completed(c, i) =>
                /\ c.log[i].rep \in {<<>>, HandlePayload(c.log[i].req)}
                /\ \A t \in Texts : c.log[i].req = ClientEcho(t)
                        => c.log[i].rep = ServerEcho(t)

\* C6 as stated: while the flag is false no accept, read or write has been
\* begun.
C6_NoOperationAfterStop ==
    ~is_running =>
        /\ acceptLate = 0
        /\ \A c \in Serviced : c.lateR = 0 /\ c.lateW = 0

\* C6, amended: while the flag is false the accept loop has begun at most
\* one accept and every servicing loop at most one read and one write.
C6_AtMostOneIteration ==
    ~is_running =>
        /\ acceptLate <= 1
        /\ \A c \in Serviced : c.lateR <= 1 /\ c.lateW <= 1

\* the flag is false, and a servicing loop has read a request and written
\* its reply since
C6_Witness ==
    /\ ~is_running
    /\ \E c \in Serviced : c.lateR = 1 /\ c.lateW = 1 /\ c.pc = "check"

\* C7: after a read has returned zero bytes on a connection, handle() is
\* not called on it again.
C7_NoHandleAfterDisconnect ==
    \A c \in Serviced : c.zeros > 0 => c.pc = "check"

\* C8 as stated: at most 16 connections are serviced at the same time.
C8_AtMostPoolSize == BagCardinality(conns) <= PoolSize

\* C8, amended: of the connections accepted by one run() call at most 16
\* are serviced at the same time (the others wait in its queue).
C8_AtMostPoolSizePerRun == \A r \in 1..MaxRuns : Busy(r) <= PoolSize

\* all workers of a pool are busy and a connection waits in its queue
C8_Witness == \E r \in 1..MaxRuns : Busy(r) = PoolSize /\ queue[r] # <<>>

\* the accept loop stands in a pool whose workers are all busy
Saturated == rpc # "idle" /\ Busy(runs) = PoolSize

\* C9: when all workers are busy the accept loop is not held up: a pending
\* connection can be accepted and enqueued, and with the flag false the
\* loop's next check leaves the loop.
C9_AcceptNotBlocked ==
    Saturated =>
        /\ rpc = "accept" /\ backlog # <<>> =>
              ENABLED (AcceptOk /\ Len(queue'[runs]) = Len(queue[runs]) + 1)
        /\ rpc = "check" /\ ~is_running =>
              ENABLED (AcceptLoopCheck /\ rpc' = "idle")
        /\ rpc \in {"check", "accept", "sleep"} =>
              ENABLED (AcceptLoopCheck \/ AcceptOk \/ AcceptWouldBlock
                       \/ Sleep)

\* all workers are busy, a connection accepted meanwhile waits in the
\* queue, and the stop() called during this run() has ended the loop
C9_Witness ==
    /\ runs > 0
    /\ Busy(runs) = PoolSize
    /\ queue[runs] # <<>>
    /\ stopped = "yes"
    /\ rpc = "idle"

\* C10: a stop() that finds the flag false takes the warning path, and no
\* step of a stop() on the warning path changes the flag; no step of any
\* stop() sets the flag.
C10_StopWhenStopped ==
    [][/\ (spc = "idle" /\ spc' # "idle" /\ ~is_running)
            => (spc' = "warn" /\ ~is_running')
       /\ (spc = "warn" /\ spc' = "idle") => (is_running' = is_running)
       /\ (spc # spc') => ~is_running' \/ is_running' = is_running]_vars

\* the server has run and has been stopped, and a further stop() is on
\* the warning path
C10_Witness ==
    /\ runs > 0
    /\ rpc = "idle"
    /\ ~is_running
    /\ spc = "warn"

\* the chunk read last on c does not decode
Undecodable(c) ==
    /\ c.log # <<>>
    /\ ~DecodeEchoMessage(c.log[Len(c.log)].req).ok

\* the step takes c out of the bag and puts d in: d is what c has become
Becomes(c, d) ==
    /\ BagCardinality(conns') = BagCardinality(conns)
    /\ CopiesIn(c, conns') < CopiesIn(c, conns)
    /\ CopiesIn(d, conns') > CopiesIn(d, conns)

\* the step takes c out of the bag and puts nothing in: c's loop has ended
Ends(c) ==
    /\ BagCardinality(conns') < BagCardinality(conns)
    /\ CopiesIn(c, conns') < CopiesIn(c, conns)

\* C11: a step of a connection whose chunk does not decode never ends its
\* loop out of handle(): handle() returns to the loop condition with
\* nothing written and the connection open, and from the loop condition,
\* with the flag true, the loop goes to another read on that connection.
C11_DecodeFailureKeepsConnection ==
    [][\A c \in Serviced : Undecodable(c) =>
          /\ c.pc = "write" =>
                /\ ~Ends(c)
                /\ \A d \in BagToSet(conns') : Becomes(c, d) =>
                      /\ d.log = c.log
                      /\ d.log[Len(d.log)].rep = <<>>
                      /\ d.pc \in {"write", "check"}
          /\ c.pc = "check" /\ is_running =>
                /\ ~Ends(c)
                /\ \A d \in BagToSet(conns') : Becomes(c, d) =>
                      /\ d.log = c.log
                      /\ d.pc \in {"check", "read"}]_vars

\* a chunk did not decode, nothing was written for it, and a later read on
\* the same connection has returned the next chunk
C11_Witness ==
    \E c \in Serviced :
        /\ Len(c.log) = 2
        /\ ~DecodeEchoMessage(c.log[1].req).ok
        /\ c.log[1].rep = <<>>

\* C12: a step that ends a servicing loop out of handle() (a read or write
\* error) leaves the flag, the accept loop, the backlog, the queues and
\* every other serviced connection as they are.
C12_IoErrorEndsOnlyThatLoop ==
    [][\A c \in Serviced : (Ends(c) /\ c.pc \in {"read", "write"}) =>
          /\ is_running' = is_running
          /\ rpc' = rpc
          /\ backlog' = backlog
          /\ queue' = queue
          /\ conns' = conns (-) Put(c)]_vars

\* of two accepted connections one has ended on an I/O error (the flag is
\* true, so no loop has ended at its condition); the accept loop is in an
\* iteration and the other connection has had a request answered
C12_Witness ==
    /\ is_running
    /\ rpc = "accept"
    /\ nconn = 2
    /\ backlog = <<>>
    /\ \A r \in DOMAIN queue : queue[r] = <<>>
    /\ BagCardinality(conns) = 1
    /\ \E c \in Serviced :
          /\ c.pc = "check"
          /\ c.log # <<>>
          /\ c.log[Len(c.log)].rep # <<>>

\* C13: an accept error takes the loop to its next iteration and changes
\* nothing else; the accept loop is left only from its condition, with the
\* flag false.
C13_AcceptErrorNotFatal ==
    [][/\ (rpc = "accept" /\ rpc' = "failed") =>
              (is_running' = is_running /\ netvars' = netvars)
       /\ (rpc = "failed" /\ rpc' # "failed") =>
              (rpc' = "check" /\ is_running' = is_running
               /\ netvars' = netvars)
       /\ (rpc # "idle" /\ rpc' = "idle") =>
              (rpc = "check" /\ ~is_running)]_vars

\* with the flag true and a connection pending, an accept has failed
C13_Witness ==
    /\ rpc = "failed"
    /\ is_running
    /\ backlog # <<>>

\* every servicing loop has exited, or is blocked in a read
Quiet == \A c \in Serviced : c.pc = "read" /\ c.inbuf = <<>> /\ ~c.closed

\* C14: once the flag is false, the servicing loops that are not blocked
\* in a read eventually exit.
C14_HandlersExit == ~is_running ~> Quiet

\* the same, unless run() sets the flag again
C14_HandlersExitUnlessRerun == ~is_running ~> (is_running \/ Quiet)

\* the jobs waiting in the queues of the pools 1..r
RECURSIVE QueuedUpTo(_)
QueuedUpTo(r) == IF r = 0 THEN 0 ELSE Len(queue[r]) + QueuedUpTo(r - 1)

Queued == QueuedUpTo(MaxRuns)

\* the connections that exist on the server side
Alive == Len(backlog) + Queued + BagCardinality(conns)

\* C15: an accepted connection becomes exactly one job, a job taken from a
\* queue becomes exactly one servicing loop, and no step makes two of a
\* connection: there are never more jobs and loops than connections.
C15_OneWorkerPerConnection ==
    [][/\ Len(backlog') < Len(backlog) =>
              /\ Len(backlog') = Len(backlog) - 1
              /\ Queued' = Queued + 1
              /\ conns' = conns
       /\ Queued' < Queued =>
              /\ Queued' = Queued - 1
              /\ BagCardinality(conns') = BagCardinality(conns) + 1
              /\ backlog' = backlog
       /\ Alive' <= Alive + (nconn' - nconn)
       /\ Alive' <= nconn']_vars

\* two connections have been accepted and each is serviced by a worker
C15_Witness ==
    /\ nconn = 2
    /\ backlog = <<>>
    /\ Queued = 0
    /\ BagCardinality(conns) = 2
    /\ \A c \in Serviced : c.pc \in {"read", "write"}

\* C16: a handle() call reads once, taking all that has arrived (at most
\* the buffer) as one chunk, and returns without reading again, having
\* written nothing or the encoding of the one message the whole chunk
\* decodes to.
C16_OneReadOneReply ==
    [][\A c \in Serviced : \A d \in BagToSet(conns') : Becomes(c, d) =>
          /\ (c.pc = "read" /\ d.pc # "read") =>
                LET n == Min(Len(c.inbuf), BufSize) IN
                \/ /\ d.pc = "write"
                   /\ n > 0
                   /\ d.log = Append(c.log, [req |-> Take(c.inbuf, n),
                                             rep |-> <<>>])
                   /\ d.inbuf = Drop(c.inbuf, n)
                \/ /\ d.pc = "check"
                   /\ n = 0
                   /\ d.log = c.log
          /\ (c.pc = "write" /\ d.pc # "write") =>
                LET chunk   == c.log[Len(c.log)].req
                    message == DecodeEchoMessage(chunk)
                IN  /\ d.pc = "check"
                    /\ d.inbuf = c.inbuf
                    /\ Len(d.log) = Len(c.log)
                    /\ d.log[Len(d.log)].req = chunk
                    /\ \/ d.log[Len(d.log)].rep = <<>>
                       \/ /\ message.ok
                          /\ d.log[Len(d.log)].rep =
                                 EncodeEchoMessage(message.content)]_vars

\* two requests arrived in one read and its handle() call has returned
C16_Witness ==
    \E c \in Serviced : \E i \in DOMAIN c.log :
        /\ Completed(c, i)
        /\ \E m1 \in Requests : \E m2 \in Requests :
              c.log[i].req = m1 \o m2

\* every client has connected and has disconnected
AllDisconnected ==
    /\ nconn = PoolSize + SatExtra
    /\ \A i \in DOMAIN backlog : backlog[i].closed
    /\ \A r \in DOMAIN queue : \A i \in DOMAIN queue[r] : queue[r][i].closed
    /\ \A c \in Serviced : c.closed

\* C17: when every client has disconnected and the server keeps running,
\* every connection is eventually picked up by a worker: none stays in
\* the backlog or in a queue.
C17_QueuedIsPickedUp ==
    (AllDisconnected /\ is_running) ~> (backlog = <<>> /\ Queued = 0)

\* C18: a servicing loop that was in handle() during an earlier run(),
\* which stop() has ended since, does not enter handle() again.
C18_NoRevival ==
    [][\A c \in Serviced : \A d \in BagToSet(conns') :
          (Becomes(c, d) /\ c.pc = "check" /\ c.seen > 0 /\ c.seen < runs)
              => d.pc # "read"]_vars

\* C19: a servicing task that has not yet found the flag true has read
\* and written nothing, and when it finds the flag false at its first
\* check it exits: its connection is never read from or written to.
C19_LateTaskDoesNothing ==
    [][\A c \in Serviced : c.seen = 0 =>
          /\ c.pc = "check"
          /\ c.log = <<>> /\ c.zeros = 0 /\ c.lateR = 0 /\ c.lateW = 0
          /\ (~is_running /\ CopiesIn(c, conns') < CopiesIn(c, conns)) =>
                \/ Ends(c)
                \/ \E d \in BagToSet(conns') :
                      Becomes(c, d) /\ d.pc = "check" /\ d.log = <<>>]_vars

\* stop() has ended run(), and a task whose connection holds an unread
\* request stands at its first flag check
C19_Witness ==
    /\ stopped = "yes"
    /\ rpc = "idle"
    /\ ~is_running
    /\ \E c \in Serviced : c.seen = 0 /\ c.pc = "check" /\ c.inbuf # <<>>

====
